---- MODULE Spec2Model ----
(***************************************************************************)
(* A model of FastSet (src/src/fast-set.ts): a growable bit vector of      *)
(* 31-bit words holding a set of integers, with add / remove, the three    *)
(* set operations built on FastSet.operation, and toHashKey.               *)
(*                                                                         *)
(* A set object is a record [vectors, props, size]: vectors is the array   *)
(* of words (TLA+ sequences are 1-based, so word index i of the code is    *)
(* position i + 1 here), props the properties the code has set on that     *)
(* array under negative indices (they are no elements of it: length,       *)
(* slice and forEach do not see them) and size the cached element count.   *)
(* Objects live in a heap                                                  *)
(* keyed by reference, so that aliasing (A.union(A)) and allocation of the *)
(* result object are part of the model.  The variables:                    *)
(*   heap    the objects, by reference;                                    *)
(*   last    the most recent call (see NoCall);                            *)
(*   calls   the number of add / remove calls made so far;                 *)
(*   returned  the reference the caller holds to the set an operation      *)
(*           returned, "none" before any operation.                        *)
(***************************************************************************)
EXTENDS Integers, Sequences, FiniteSets, TLC

VARIABLES heap, last, calls, returned

vars == <<heap, last, calls, returned>>

(***************************************************************************)
(* Bounds of the model.                                                    *)
(***************************************************************************)
\* longest list of values handed to the constructor
MaxLen == 2
\* number of add / remove calls made on the receiver in Spec
MaxCalls == 3
\* number of add / remove calls made on a returned set in SpecOps
MaxResultCalls == 1

\* The values the calls draw from: 0 and 1 share word 0 with 4; 31 is exactly
\* the capacity of a one-word set; 35 lies beyond it (bit 4 of word 1).
Values == {0, 1, 4, 31, 35}

\* Further values for the add and remove calls of Spec: 93 is exactly the
\* capacity after one growth step of a one-word set; 100 takes two steps.
GrowthValues == {93, 100}

\* Negative values, for the add calls of SpecNegative.
NegativeValues == {0 - 1, 0 - 2}

Refs == {"A", "B", "R"}

(***************************************************************************)
(* JavaScript's 32-bit bitwise operators.  Operands are int32; bit 31 is   *)
(* the sign bit.                                                           *)
(***************************************************************************)
BITS_PER_NUMBER == 31

Pow2(n) == 2 ^ n

\* bit i (0..31) of the two's complement int32 x
Bit32(x, i) == IF i = 31 THEN (IF x < 0 THEN 1 ELSE 0) ELSE (x \div Pow2(i)) % 2

\* the int32 whose bits 0..31 are given by b
RECURSIVE LowBits(_, _)
LowBits(b, i) == IF i > 30 THEN 0 ELSE b[i] * Pow2(i) + LowBits(b, i + 1)

FromBits32(b) == IF b[31] = 1 THEN (LowBits(b, 0) - 2147483647) - 1 ELSE LowBits(b, 0)

\* x & y, x | y and x & ~y on non-negative operands, bit by bit from the lowest
RECURSIVE AndNat(_, _)
AndNat(x, y) ==
    IF x = 0 \/ y = 0 THEN 0 ELSE (x % 2) * (y % 2) + 2 * AndNat(x \div 2, y \div 2)

RECURSIVE OrNat(_, _)
OrNat(x, y) ==
    IF x = 0 THEN y
    ELSE IF y = 0 THEN x
    ELSE (IF (x % 2) + (y % 2) > 0 THEN 1 ELSE 0) + 2 * OrNat(x \div 2, y \div 2)

RECURSIVE AndNotNat(_, _)
AndNotNat(x, y) ==
    IF x = 0 THEN 0 ELSE (x % 2) * (1 - (y % 2)) + 2 * AndNotNat(x \div 2, y \div 2)

\* ~x
BitNot(x) == (0 - 1) - x

\* x & y on int32: a negative operand is the complement of a non-negative one
BitAnd(x, y) ==
    CASE x >= 0 /\ y >= 0 -> AndNat(x, y)
      [] x >= 0 /\ y < 0 -> AndNotNat(x, BitNot(y))
      [] x < 0 /\ y >= 0 -> AndNotNat(y, BitNot(x))
      [] OTHER -> BitNot(OrNat(BitNot(x), BitNot(y)))

\* x | y on int32
BitOr(x, y) ==
    CASE x >= 0 /\ y >= 0 -> OrNat(x, y)
      [] x >= 0 /\ y < 0 -> BitNot(AndNotNat(BitNot(y), x))
      [] x < 0 /\ y >= 0 -> BitNot(AndNotNat(BitNot(x), y))
      [] OTHER -> BitNot(AndNat(BitNot(x), BitNot(y)))

\* x << n: the shift count is taken modulo 32
ShiftLeft(x, n) ==
    LET count == n % 32
    IN  FromBits32([i \in 0..31 |-> IF i >= count THEN Bit32(x, i - count) ELSE 0])

\* x >>> 1 (as used on a result that the loop guard keeps positive)
UShiftRight1(x) == IF x >= 0 THEN x \div 2 ELSE (((x + 2147483647) + 1) \div 2) + 1073741824

\* value % BITS_PER_NUMBER: JavaScript's remainder takes the sign of the dividend
JsRem(a, n) == IF a >= 0 THEN a % n ELSE 0 - ((0 - a) % n)

(***************************************************************************)
(* Array access.  Reading past the end yields undefined, which every       *)
(* bitwise operator (and `|| 0`) coerces to 0.  Writing at index           *)
(* vectors.length appends; maybeGrowVectors leaves value <= capacity, so   *)
(* on never writes further out than that.                                  *)
(***************************************************************************)
ReadVector(vectors, i) ==
    IF i >= 0 /\ i < Len(vectors) THEN vectors[i + 1] ELSE 0

WriteVector(vectors, i, v) ==
    IF i < Len(vectors)
    THEN [vectors EXCEPT ![i + 1] = v]
    ELSE vectors \o [k \in 1..(i - Len(vectors)) |-> 0] \o <<v>>

\* this.vectors[i] for any integer i: a negative i names a property of the
\* array object, undefined (coerced to 0) until it has been set
ReadProperty(vectors, props, i) ==
    IF i < 0
    THEN (IF i \in DOMAIN props THEN props[i] ELSE 0)
    ELSE ReadVector(vectors, i)

\* this.vectors[i] = v for any integer i: the array and its properties afterwards
WriteProperty(vectors, props, i, v) ==
    IF i < 0
    THEN [vectors |-> vectors, props |-> (i :> v) @@ props]
    ELSE [vectors |-> WriteVector(vectors, i, v), props |-> props]

(***************************************************************************)
(* FastSet's private helpers.                                              *)
(***************************************************************************)
capacity(vectors) == Len(vectors) * BITS_PER_NUMBER

getVectorIndex(value) == value \div BITS_PER_NUMBER

getBit(vector, index) ==
    LET mask == ShiftLeft(1, index)
    IN  IF BitAnd(vector, mask) > 0 THEN "1" ELSE "0"

\* the growth loop with the guard value >= capacity
RECURSIVE maybeGrowVectors_AtCapacity(_, _)
maybeGrowVectors_AtCapacity(vectors, value) ==
    IF value >= capacity(vectors)
    THEN LET factor == 2 * Len(vectors)
         IN  maybeGrowVectors_AtCapacity(vectors \o [k \in 1..factor |-> 0], value)
    ELSE vectors

RECURSIVE maybeGrowVectors(_, _)
maybeGrowVectors(vectors, value) ==
    IF value > capacity(vectors)
    THEN LET factor == 2 * Len(vectors)
         IN  maybeGrowVectors(vectors \o [k \in 1..factor |-> 0], value)
    ELSE vectors

\* on with the write-back of the word left out
on_NoStore(vectors, props, value) ==
    LET grown == maybeGrowVectors(vectors, value)
        vector == ReadProperty(grown, props, getVectorIndex(value))
        bit == getBit(vector, JsRem(value, BITS_PER_NUMBER))
    IN  [vectors |-> grown, props |-> props, changed |-> bit = "0"]

\* on storing the mask itself (vector = mask) instead of or-ing it in
on_Assign(vectors, props, value) ==
    LET grown == maybeGrowVectors(vectors, value)
        vectorIndex == getVectorIndex(value)
        vector == ReadProperty(grown, props, vectorIndex)
        bitIndex == JsRem(value, BITS_PER_NUMBER)
    IN  IF getBit(vector, bitIndex) = "0"
        THEN LET written == WriteProperty(grown, props, vectorIndex,
                                          ShiftLeft(1, bitIndex))
             IN  [vectors |-> written.vectors, props |-> written.props, changed |-> TRUE]
        ELSE [vectors |-> grown, props |-> props, changed |-> FALSE]

\* on(value): the array afterwards and the boolean it returns
on(vectors, props, value) ==
    LET grown == maybeGrowVectors(vectors, value)
        vectorIndex == getVectorIndex(value)
        vector == ReadProperty(grown, props, vectorIndex)
        bitIndex == JsRem(value, BITS_PER_NUMBER)
        bit == getBit(vector, bitIndex)
    IN  IF bit = "0"
        THEN LET mask == ShiftLeft(1, bitIndex)
                 written == WriteProperty(grown, props, vectorIndex, BitOr(vector, mask))
             IN  [vectors |-> written.vectors, props |-> written.props, changed |-> TRUE]
        ELSE [vectors |-> grown, props |-> props, changed |-> FALSE]

\* off(value): the array afterwards and the boolean it returns
off(vectors, props, value) ==
    LET vectorIndex == getVectorIndex(value)
    IN  IF vectorIndex < Len(vectors)
        THEN LET vector == ReadProperty(vectors, props, vectorIndex)
                 bitIndex == JsRem(value, BITS_PER_NUMBER)
                 bit == getBit(vector, bitIndex)
             IN  IF bit = "1"
                 THEN LET mask == BitOr(BitNot(vector), ShiftLeft(0, bitIndex))
                          written == WriteProperty(vectors, props, vectorIndex,
                                                   BitAnd(vector, mask))
                      IN  [vectors |-> written.vectors, props |-> written.props,
                           changed |-> TRUE]
                 ELSE [vectors |-> vectors, props |-> props, changed |-> FALSE]
        ELSE [vectors |-> vectors, props |-> props, changed |-> FALSE]

(***************************************************************************)
(* The public mutators and the constructor, on one object.                 *)
(***************************************************************************)
add(set, value) ==
    LET r == on(set.vectors, set.props, value)
    IN  [vectors |-> r.vectors, props |-> r.props,
         size |-> IF r.changed THEN set.size + 1 ELSE set.size]

\* remove decrementing size whatever off returns
remove_Always(set, value) ==
    LET r == off(set.vectors, set.props, value)
    IN  [vectors |-> r.vectors, props |-> r.props, size |-> set.size - 1]

remove(set, value) ==
    LET r == off(set.vectors, set.props, value)
    IN  [vectors |-> r.vectors, props |-> r.props,
         size |-> IF r.changed THEN set.size - 1 ELSE set.size]

RECURSIVE addAll(_, _)
addAll(set, values) ==
    IF values = <<>> THEN set ELSE addAll(add(set, Head(values)), Tail(values))

FastSet(values) == addAll([vectors |-> <<0>>, props |-> <<>>, size |-> 0], values)

(***************************************************************************)
(* Set operations.  operation walks the words, decodes each result word    *)
(* into values and builds a new FastSet from them.                         *)
(***************************************************************************)
\* intersection's callback with | in place of &
intersectionCallback_Or(vector, otherVector) == BitOr(vector, otherVector)

intersectionCallback(vector, otherVector) == BitAnd(vector, otherVector)

unionCallback(vector, otherVector) == BitOr(vector, otherVector)

differenceCallback(vector, otherVector) == BitAnd(vector, BitNot(otherVector))

callback(op, vector, otherVector) ==
    CASE op = "intersection" -> intersectionCallback(vector, otherVector)
      [] op = "union" -> unionCallback(vector, otherVector)
      [] op = "difference" -> differenceCallback(vector, otherVector)

\* the inner while loop: the values of the 1-bits of result, lowest first
RECURSIVE decodeBits(_, _, _)
decodeBits(result, bitIndex, i) ==
    IF result > 0
    THEN (IF BitAnd(result, 1) = 1
          THEN <<i * BITS_PER_NUMBER + bitIndex>>
          ELSE <<>>) \o decodeBits(UShiftRight1(result), bitIndex + 1, i)
    ELSE <<>>

\* the for loop without its break: it runs to the longer operand's length
RECURSIVE operationValues_NoBreak(_, _, _, _)
operationValues_NoBreak(thisVectors, otherVectors, op, i) ==
    LET maxVectorsLength ==
            IF Len(thisVectors) >= Len(otherVectors)
            THEN Len(thisVectors) ELSE Len(otherVectors)
    IN  IF i < maxVectorsLength
        THEN LET thisVector == ReadVector(thisVectors, i)
                 otherVector == ReadVector(otherVectors, i)
                 result == callback(op, thisVector, otherVector)
             IN  decodeBits(result, 0, i)
                   \o operationValues_NoBreak(thisVectors, otherVectors, op, i + 1)
        ELSE <<>>

\* the for loop from index i on, with its break
RECURSIVE operationValues(_, _, _, _)
operationValues(thisVectors, otherVectors, op, i) ==
    LET maxVectorsLength ==
            IF Len(thisVectors) >= Len(otherVectors)
            THEN Len(thisVectors) ELSE Len(otherVectors)
    IN  IF i < maxVectorsLength
        THEN IF i >= Len(otherVectors)
             THEN <<>>
             ELSE LET thisVector == ReadVector(thisVectors, i)
                      otherVector == ReadVector(otherVectors, i)
                      result == callback(op, thisVector, otherVector)
                  IN  decodeBits(result, 0, i)
                        \o operationValues(thisVectors, otherVectors, op, i + 1)
        ELSE <<>>

\* a reference no object of the heap h has yet
NewRef(h) == CHOOSE r \in Refs : r \notin DOMAIN h

\* operation adding the values to this and returning this, instead of
\* building a new FastSet
operation_IntoThis(h, this, other, op) ==
    LET values == operationValues(h[this].vectors, h[other].vectors, op, 0)
    IN  [heap |-> [h EXCEPT ![this] = addAll(h[this], values)], result |-> this]

\* this.operation(other, callback) on heap h: the heap afterwards and the
\* reference returned
operation(h, this, other, op) ==
    LET values == operationValues(h[this].vectors, h[other].vectors, op, 0)
        new == NewRef(h)
    IN  [heap |-> (new :> FastSet(values)) @@ h, result |-> new]

intersection(h, this, other) == operation(h, this, other, "intersection")

union(h, this, other) == operation(h, this, other, "union")

difference(h, this, other) == operation(h, this, other, "difference")

(***************************************************************************)
(* toHashKey.  Strings are sequences of characters.                        *)
(***************************************************************************)
HexDigits == <<"0", "1", "2", "3", "4", "5", "6", "7", "8", "9", "a", "b", "c", "d", "e", "f">>

\* n.toString(16) for n >= 0
RECURSIVE HexMagnitude(_)
HexMagnitude(n) ==
    IF n < 16
    THEN <<HexDigits[n + 1]>>
    ELSE HexMagnitude(n \div 16) \o <<HexDigits[(n % 16) + 1]>>

\* n.toString(16)
toString16(n) == IF n < 0 THEN <<"-">> \o HexMagnitude(0 - n) ELSE HexMagnitude(n)

\* while (vectors[vectors.length - 1] === 0) vectors.pop(): on the empty array
\* the read yields undefined, which is not 0, and the loop ends
RECURSIVE popZeros(_)
popZeros(vectors) ==
    IF Len(vectors) > 0 /\ vectors[Len(vectors)] = 0
    THEN popZeros(SubSeq(vectors, 1, Len(vectors) - 1))
    ELSE vectors

\* the strings pushed instead of unshifted: first word first
RECURSIVE joinUnshifted_Pushed(_)
joinUnshifted_Pushed(vectors) ==
    IF vectors = <<>>
    THEN <<>>
    ELSE toString16(Head(vectors)) \o joinUnshifted_Pushed(Tail(vectors))

\* forEach(vector => result.unshift(...)) then join(''): last word first
RECURSIVE joinUnshifted(_)
joinUnshifted(vectors) ==
    IF vectors = <<>>
    THEN <<>>
    ELSE joinUnshifted(Tail(vectors)) \o toString16(Head(vectors))

\* toHashKey(): the string returned, and this.vectors afterwards (the loop
\* pops from a slice() copy)
toHashKey(set) ==
    LET vectors == popZeros(set.vectors)
    IN  [key |-> joinUnshifted(vectors), vectors |-> set.vectors]

(***************************************************************************)
(* What a set holds, read off its words.                                   *)
(***************************************************************************)
\* is the bit of v set in vectors?
Contains(vectors, v) ==
    /\ v >= 0
    /\ v \div BITS_PER_NUMBER < Len(vectors)
    /\ Bit32(vectors[(v \div BITS_PER_NUMBER) + 1], v % BITS_PER_NUMBER) = 1

Members(vectors) == {v \in 0..(capacity(vectors) - 1) : Contains(vectors, v)}

\* number of 1-bits across all words
PopCount(vectors) == Cardinality(Members(vectors))

(***************************************************************************)
(* The calls.  last records the most recent call: its name, receiver,      *)
(* argument, the heap it started from, the reference it returned (add and  *)
(* remove return this) and, for toHashKey, the string it returned.         *)
(***************************************************************************)
\* Before any call, last holds the lists the constructors were given, by
\* reference.
NoCall(h, values) ==
    [op |-> "new", this |-> "A", other |-> "A", value |-> 0, pre |-> h,
     result |-> "A", key |-> <<>>, values |-> values]

Lists == UNION {[1..n -> Values] : n \in 0..MaxLen}

Add(this, value) ==
    /\ this \in DOMAIN heap
    /\ heap' = [heap EXCEPT ![this] = add(heap[this], value)]
    /\ last' = [op |-> "add", this |-> this, other |-> this, value |-> value,
                pre |-> heap, result |-> this, key |-> <<>>]
    /\ calls' = calls + 1
    /\ UNCHANGED returned

Remove(this, value) ==
    /\ this \in DOMAIN heap
    /\ heap' = [heap EXCEPT ![this] = remove(heap[this], value)]
    /\ last' = [op |-> "remove", this |-> this, other |-> this, value |-> value,
                pre |-> heap, result |-> this, key |-> <<>>]
    /\ calls' = calls + 1
    /\ UNCHANGED returned

ToHashKey(this) ==
    /\ this \in DOMAIN heap
    /\ LET r == toHashKey(heap[this])
       IN  /\ heap' = [heap EXCEPT ![this].vectors = r.vectors]
           /\ last' = [op |-> "toHashKey", this |-> this, other |-> this, value |-> 0,
                       pre |-> heap, result |-> this, key |-> r.key]
    /\ UNCHANGED <<calls, returned>>

\* toHashKey() on the one set of Spec
HashKeyCall == \E this \in DOMAIN heap : ToHashKey(this)

\* Spec: one set, built by the constructor, then mutated by add and remove
\* and asked for its hash key.
Init ==
    \E values \in Lists :
        /\ heap = ("A" :> FastSet(values))
        /\ last = NoCall(heap, "A" :> values)
        /\ calls = 0
        /\ returned = "none"

AddCall ==
    \E value \in Values \cup GrowthValues : calls < MaxCalls /\ Add("A", value)

RemoveCall ==
    \E value \in Values \cup GrowthValues : calls < MaxCalls /\ Remove("A", value)

Next == AddCall \/ RemoveCall \/ HashKeyCall

Spec == Init /\ [][Next]_vars

\* SpecNegative: as Spec, with add calls that pass a negative value as well.
NegativeAddCall == \E value \in NegativeValues : calls < MaxCalls /\ Add("A", value)

NextNegative == Next \/ NegativeAddCall

SpecNegative == Init /\ [][NextNegative]_vars

(***************************************************************************)
(* SpecOps: two sets built by the constructor; one of them is asked for    *)
(* hash keys and for a union, intersection or difference with itself or    *)
(* the other (once: the heap has room for one returned object); the        *)
(* returned set is then mutated by add and remove.                         *)
(***************************************************************************)
Operation(this, other, op) ==
    /\ {this, other} \subseteq DOMAIN heap
    /\ LET r == CASE op = "intersection" -> intersection(heap, this, other)
                  [] op = "union" -> union(heap, this, other)
                  [] op = "difference" -> difference(heap, this, other)
       IN  /\ heap' = r.heap
           /\ last' = [op |-> op, this |-> this, other |-> other, value |-> 0,
                       pre |-> heap, result |-> r.result, key |-> <<>>]
           /\ returned' = r.result
    /\ UNCHANGED calls

InitOps ==
    \E valuesA \in Lists, valuesB \in Lists :
        /\ heap = ("A" :> FastSet(valuesA)) @@ ("B" :> FastSet(valuesB))
        /\ last = NoCall(heap, ("A" :> valuesA) @@ ("B" :> valuesB))
        /\ calls = 0
        /\ returned = "none"

UnionCall ==
    \E other \in {"A", "B"} : returned = "none" /\ Operation("A", other, "union")

IntersectionCall ==
    \E other \in {"A", "B"} : returned = "none" /\ Operation("A", other, "intersection")

DifferenceCall ==
    \E other \in {"A", "B"} : returned = "none" /\ Operation("A", other, "difference")

ToHashKeyCall == \E this \in Refs : calls = 0 /\ ToHashKey(this)

ResultAddCall == \E value \in Values : calls < MaxResultCalls /\ Add(returned, value)

ResultRemoveCall == \E value \in Values : calls < MaxResultCalls /\ Remove(returned, value)

NextOps ==
    \/ UnionCall
    \/ IntersectionCall
    \/ DifferenceCall
    \/ ToHashKeyCall
    \/ ResultAddCall
    \/ ResultRemoveCall

SpecOps == InitOps /\ [][NextOps]_vars

(***************************************************************************)
(* Properties of add and remove, checked under Spec.                       *)
(***************************************************************************)
\* the receiver of the last call, before and after it
Before == last.pre[last.this]

After == heap[last.this]

\* C1: in every reachable state, size equals the number of 1-bits across all
\* words of vectors.
C1_SizeIsPopCount ==
    \A r \in DOMAIN heap : heap[r].size = PopCount(heap[r].vectors)

\* C2: remove(v) clears only the bit of v: afterwards v is not a member, every
\* other value is a member exactly when it was before, and size has gone
\* down by 1 if v was a member and is unchanged otherwise.
C2_RemoveClearsOnlyItsBit ==
    last.op = "remove" =>
        /\ Members(After.vectors) = Members(Before.vectors) \ {last.value}
        /\ After.size = IF Contains(Before.vectors, last.value)
                        THEN Before.size - 1
                        ELSE Before.size

\* C3: for every value v and every reachable set, add(v) followed by remove(v)
\* restores the exact prior words and the prior size.  Stated here for the
\* values where nothing but the two calls is in play: v is not yet a member
\* (so add does add it) and lies within the capacity (so add does not grow
\* the array).
C3_AddThenRemoveRestores ==
    \A r \in DOMAIN heap : \A v \in Values :
        (v < capacity(heap[r].vectors) /\ ~Contains(heap[r].vectors, v)) =>
            remove(add(heap[r], v), v) = heap[r]

\* C4: after add(v) the bit of v is set (its word index is below
\* vectors.length and its bit in that word is 1); size has gone up by exactly 1
\* if v was not a member, and size and vectors are unchanged if it was.
C4_AddSetsBit ==
    last.op = "add" =>
        /\ getVectorIndex(last.value) < Len(After.vectors)
        /\ Bit32(After.vectors[getVectorIndex(last.value) + 1],
                 last.value % BITS_PER_NUMBER) = 1
        /\ IF Contains(Before.vectors, last.value)
           THEN After.size = Before.size /\ After.vectors = Before.vectors
           ELSE After.size = Before.size + 1

\* C4's case: an add of a value at or beyond the capacity has taken place, on
\* a set that earlier calls have left with a size other than its bit count
C4_Witness ==
    /\ last.op = "add"
    /\ last.value >= capacity(Before.vectors)
    /\ After.size = Before.size + 1
    /\ Before.size # PopCount(Before.vectors)

(***************************************************************************)
(* Properties of union, intersection, difference and toHashKey, checked    *)
(* under SpecOps.                                                          *)
(***************************************************************************)
OperationNames == {"union", "intersection", "difference"}

\* the members of the operands of the last operation and of the set it returned
ThisMembers == Members(last.pre[last.this].vectors)

OtherMembers == Members(last.pre[last.other].vectors)

ResultMembers == Members(heap[last.result].vectors)

\* the values below len(other.vectors) * 31
BelowOther == 0..(capacity(last.pre[last.other].vectors) - 1)

\* C5: A.union(B) returns a set whose members are exactly the members of A or
\* of B, whichever operand has more words.
C5_UnionIsUnion ==
    last.op = "union" => ResultMembers = ThisMembers \cup OtherMembers

\* C6: A.difference(B) returns a set whose members are exactly the members of
\* A that are not members of B, whichever operand has more words.
C6_DifferenceIsDifference ==
    last.op = "difference" => ResultMembers = ThisMembers \ OtherMembers

\* C7: A.intersection(B) returns a set whose members are exactly the common
\* members of A and B, whichever operand has more words, and B.intersection(A)
\* has the same members.
C7_IntersectionIsIntersection ==
    last.op = "intersection" =>
        LET swapped == intersection(last.pre, last.other, last.this)
        IN  /\ ResultMembers = ThisMembers \cap OtherMembers
            /\ ResultMembers = Members(swapped.heap[swapped.result].vectors)

\* C7's case: the receiver has more words than the argument and members
\* beyond the argument's words, and the intersection is not empty
C7_Witness ==
    /\ last.op = "intersection"
    /\ Len(last.pre[last.this].vectors) > Len(last.pre[last.other].vectors)
    /\ ThisMembers \ BelowOther # {}
    /\ ResultMembers # {}

C9_OperandsUntouched ==
    /\ last.op \in OperationNames =>
          /\ last.result \notin DOMAIN last.pre
          /\ \A r \in DOMAIN last.pre : heap[r] = last.pre[r]
    /\ (returned # "none" /\ last.op \in {"add", "remove"}) =>
          /\ last.this = returned
          /\ returned \notin {"A", "B"}
          /\ \A r \in {"A", "B"} : heap[r] = last.pre[r]

\* C9's case: a set returned by an operation on two different, non-empty
\* operands has been changed by a later add
C9_Witness ==
    /\ returned # "none"
    /\ last.op = "add"
    /\ heap[returned] # last.pre[returned]
    /\ heap["A"] # heap["B"]
    /\ Members(heap["A"].vectors) # {}
    /\ Members(heap["B"].vectors) # {}

\* C10: the keys of two sets are equal if and only if the sets have identical
\* membership (their words are equal once trailing zero words are removed).
C10_KeyEqualIffSameMembers ==
    last.op = "toHashKey" =>
        \A r \in DOMAIN heap :
            (last.key = toHashKey(heap[r]).key)
                <=> (popZeros(heap[last.this].vectors) = popZeros(heap[r].vectors))

(***************************************************************************)
(* Properties of toHashKey on one set, checked under Spec.                 *)
(***************************************************************************)
\* C11: toHashKey() of a set with no members, whatever the number of its
\* all-zero words, is the string "0", never the empty string.
C11_EmptySetKeyIsZero ==
    (last.op = "toHashKey" /\ Members(After.vectors) = {}) => last.key = <<"0">>

\* the number a string of hex digits denotes
RECURSIVE HexValue(_)
HexValue(str) ==
    IF str = <<>>
    THEN 0
    ELSE 16 * HexValue(SubSeq(str, 1, Len(str) - 1))
           + ((CHOOSE d \in 1..16 : HexDigits[d] = str[Len(str)]) - 1)

\* lowercase base 16 without padding: digits 0-9 a-f, no leading 0 but for "0"
IsUnpaddedHex(str) ==
    /\ Len(str) >= 1
    /\ \A k \in 1..Len(str) : \E d \in 1..16 : HexDigits[d] = str[k]
    /\ Len(str) > 1 => str[1] # "0"

\* the strings of the words at positions top, top - 1, ..., 1 in a row
RECURSIVE HexDownFrom(_, _)
HexDownFrom(vectors, top) ==
    IF top = 0
    THEN <<>>
    ELSE toString16(vectors[top]) \o HexDownFrom(vectors, top - 1)

\* C12: for a set with at least one nonzero word, toHashKey() returns the
\* lowercase, unpadded base-16 renderings of the words from the highest-index
\* nonzero word down to word 0, in a row; vectors and size of the set are as
\* they were before the call.
C12_KeyIsHexHighWordFirst ==
    (last.op = "toHashKey" /\ \E k \in 1..Len(Before.vectors) : Before.vectors[k] # 0) =>
        LET words == Before.vectors
            top == CHOOSE k \in 1..Len(words) :
                      words[k] # 0 /\ \A j \in (k + 1)..Len(words) : words[j] = 0
        IN  /\ last.key = HexDownFrom(words, top)
            /\ \A k \in 1..top :
                  /\ IsUnpaddedHex(toString16(words[k]))
                  /\ HexValue(toString16(words[k])) = words[k]
            /\ heap = last.pre

\* C12's case: the key of a set with a trailing zero word, a zero word below
\* its highest nonzero word and a word of more than one hex digit
C12_Witness ==
    /\ last.op = "toHashKey"
    /\ Len(Before.vectors) >= 3
    /\ Before.vectors[Len(Before.vectors)] = 0
    /\ Before.vectors[1] = 0
    /\ Before.vectors[2] >= 16
    /\ Len(last.key) >= 3

(***************************************************************************)
(* Properties of the constructor, checked under SpecOps, whose initial     *)
(* states hold two sets and the lists they were built from.                *)
(***************************************************************************)
\* how often v occurs in list
Occurrences(list, v) == Cardinality({k \in 1..Len(list) : list[k] = v})

SameMultiset(listA, listB) ==
    /\ Len(listA) = Len(listB)
    /\ \A v \in Values : Occurrences(listA, v) = Occurrences(listB, v)

C14_NegativeAddRejected ==
    (last.op = "add" /\ last.value < 0) =>
        /\ After.size = Before.size
        /\ After.vectors = Before.vectors

(***************************************************************************)
(* Growth and the size counter, checked under Spec.                        *)
(***************************************************************************)
\* the least number of tripling steps, at least from, after which a set of
\* length words has room for v under the test fits(capacity)
LeastSteps(length, from, fits(_)) ==
    CHOOSE k \in from..8 :
        /\ fits(length * (3 ^ k) * BITS_PER_NUMBER)
        /\ \A j \in from..(k - 1) : ~fits(length * (3 ^ j) * BITS_PER_NUMBER)

C16_SizeAtLeastPopCount ==
    /\ \A r \in DOMAIN heap :
          heap[r].size >= PopCount(heap[r].vectors) /\ heap[r].size >= 0
    /\ (last.op = "remove" /\ After.size # Before.size) =>
          /\ Contains(Before.vectors, last.value)
          /\ After.size = Before.size - 1

\* C16's case: a remove has decremented size and left it above the number of
\* 1-bits
C16_Witness ==
    /\ last.op = "remove"
    /\ After.size = Before.size - 1
    /\ After.size > PopCount(After.vectors)

====
